---- MODULE Spec2Model ----
(***************************************************************************)
(* A model of src/lib/StructAnalyzer.h: the per-type record StructInfo     *)
(* (flattened layout, allocation classifier getAllocCache, leak registry   *)
(* leakInfo) and the layout cache StructAnalyzer::structInfoMap.           *)
(*                                                                         *)
(* Four specifications share the variables:                                *)
(*   SpecLeak    the leak registry (addLeakSourceInfo / getSiteInfo)       *)
(*   SpecAlloc   the allocation classifier (getAllocCache)                 *)
(*   SpecLayout  the layout cache and the flattening of aggregate types    *)
(*   SpecReport  the rendering of guard comparisons (dumpPred)             *)
(***************************************************************************)
EXTENDS Integers, Sequences, FiniteSets, TLC

VARIABLES
  ndebug,         \* the build: TRUE when NDEBUG compiles assert() out
  uninit,         \* the build: what a member no code assigns (finalized) holds
  aborted,        \* the process has been terminated (assertion failure, crash)
  last,           \* what the last operation was given and what it produced
  leakInfo,       \* StructInfo::leakInfo : offset -> (site value -> SiteInfo)
  allocSite,      \* StructInfo::allocSite, in the iteration order of the std::set
  allocSize,      \* StructInfo::allocSize
  decl,           \* the aggregate type declarations of the program (input)
  structInfoMap,  \* StructAnalyzer::structInfoMap : type -> StructInfo
  maxStruct,      \* StructInfo::maxStruct (static)
  maxStructSize,  \* StructInfo::maxStructSize (static)
  finalizedSeq,   \* history: the types in the order their layouts were finalized
  recordCalls,    \* history: the addLeakSourceInfo calls made so far
  report          \* what RES_REPORT has written, one entry per call

vars == << ndebug, uninit, aborted, last, leakInfo, allocSite, allocSize, decl,
           structInfoMap, maxStruct, maxStructSize, finalizedSeq, recordCalls,
           report >>

leakVars   == << leakInfo, recordCalls, report >>
allocVars  == << allocSite, allocSize >>
layoutVars == << decl, structInfoMap, maxStruct, maxStructSize, finalizedSeq >>

\* nullptr, and the value of `last` before any operation
NULL == "nullptr"
NoOp == [op |-> "none"]

(***************************************************************************)
(*                        Leak / check registry                            *)
(***************************************************************************)

\* byte offsets of the length argument (first key of LeakInfo)
LeakOffsets == {0, 8}
\* program values standing for copy-out calls (second key of LeakInfo)
LeakValues == {"copyout1", "copyout2"}
\* SiteInfo: the classification tag and the value that produced the length
SiteInfo == [TYPE : {"STACK", "HEAP_SAME_OBJ"}, lenValue : {"len1"}]
\* how many addLeakSourceInfo calls a run makes
MaxCalls == 4

\* The effect of addLeakSourceInfo on the registry `li` in build `nd`:
\* the registry after the call, whether WARNING was logged, whether the
\* assertion failed.
\* A mutant: the duplicate-key path has lost its assertion.
addLeakSourceInfo_noassert(li, nd, offset, V, siteInfo) ==
  IF offset \notin DOMAIN li
    THEN [leakInfo |-> li @@ (offset :> (V :> siteInfo)),
          warned |-> FALSE, aborted |-> FALSE]
  ELSE IF V \notin DOMAIN li[offset]
    THEN [leakInfo |-> [li EXCEPT ![offset] = @ @@ (V :> siteInfo)],
          warned |-> FALSE, aborted |-> FALSE]
  ELSE [leakInfo |-> [li EXCEPT ![offset][V] = siteInfo],
        warned |-> TRUE, aborted |-> FALSE]

\* A mutant: the duplicate-key path ends at the assertion, the two lines that
\* overwrite the record are gone.
addLeakSourceInfo_nowrite(li, nd, offset, V, siteInfo) ==
  IF offset \notin DOMAIN li
    THEN [leakInfo |-> li @@ (offset :> (V :> siteInfo)),
          warned |-> FALSE, aborted |-> FALSE]
  ELSE IF V \notin DOMAIN li[offset]
    THEN [leakInfo |-> [li EXCEPT ![offset] = @ @@ (V :> siteInfo)],
          warned |-> FALSE, aborted |-> FALSE]
  ELSE [leakInfo |-> li, warned |-> TRUE, aborted |-> ~nd]

\* A mutant: a new site under an existing offset replaces that offset's map
\* instead of being inserted into it.
addLeakSourceInfo_replace(li, nd, offset, V, siteInfo) ==
  IF offset \notin DOMAIN li
    THEN [leakInfo |-> li @@ (offset :> (V :> siteInfo)),
          warned |-> FALSE, aborted |-> FALSE]
  ELSE IF V \notin DOMAIN li[offset]
    THEN [leakInfo |-> [li EXCEPT ![offset] = (V :> siteInfo)],
          warned |-> FALSE, aborted |-> FALSE]
  ELSE IF nd
    THEN [leakInfo |-> [li EXCEPT ![offset][V] = siteInfo],
          warned |-> TRUE, aborted |-> FALSE]
  ELSE [leakInfo |-> li, warned |-> TRUE, aborted |-> TRUE]

addLeakSourceInfoEffect(li, nd, offset, V, siteInfo) ==
  IF offset \notin DOMAIN li
    \* leakInfo.find(offset) == leakInfo.end(): a new inner map
    THEN [leakInfo |-> li @@ (offset :> (V :> siteInfo)),
          warned |-> FALSE, aborted |-> FALSE]
  ELSE IF V \notin DOMAIN li[offset]
    \* it->second.find(V) == it->second.end(): insert into the inner map
    THEN [leakInfo |-> [li EXCEPT ![offset] = @ @@ (V :> siteInfo)],
          warned |-> FALSE, aborted |-> FALSE]
  ELSE IF nd
    \* WARNING; assert(false) compiled out; sit->second = siteInfo
    THEN [leakInfo |-> [li EXCEPT ![offset][V] = siteInfo],
          warned |-> TRUE, aborted |-> FALSE]
  \* WARNING; assert(false && "BUG?") terminates the process
  ELSE [leakInfo |-> li, warned |-> TRUE, aborted |-> TRUE]

\* the nullptr result of getSiteInfo
NoSiteInfo == [null |-> TRUE]

\* SiteInfo *getSiteInfo(offset, V): the stored record, or nullptr
getSiteInfoOf(li, offset, V) ==
  IF offset \notin DOMAIN li THEN NoSiteInfo
  ELSE IF V \notin DOMAIN li[offset] THEN NoSiteInfo
  ELSE li[offset][V]

getSiteInfo(offset, V) == getSiteInfoOf(leakInfo, offset, V)

\* how a call addLeakSourceInfo(offset, V, siteInfo) relates to the registry
KeyState(li, offset, V, siteInfo) ==
  IF getSiteInfoOf(li, offset, V) = NoSiteInfo THEN "fresh"
  ELSE IF getSiteInfoOf(li, offset, V) = siteInfo THEN "identical"
  ELSE "different"

addLeakSourceInfo(offset, V, siteInfo) ==
  LET r == addLeakSourceInfoEffect(leakInfo, ndebug, offset, V, siteInfo) IN
    /\ ~aborted
    /\ recordCalls.n < MaxCalls
    /\ leakInfo' = r.leakInfo
    /\ aborted' = r.aborted
    /\ last' = [op |-> "addLeakSourceInfo", offset |-> offset, V |-> V,
                siteInfo |-> siteInfo,
                key |-> KeyState(leakInfo, offset, V, siteInfo),
                before |-> leakInfo, warned |-> r.warned]
    /\ recordCalls' =
         [n |-> recordCalls.n + 1,
          calls |-> recordCalls.calls \cup {<< offset, V, siteInfo >>},
          \* every call so far was on a key no earlier call had used
          distinct |-> /\ recordCalls.distinct
                       /\ \A c \in recordCalls.calls :
                            ~(c[1] = offset /\ c[2] = V)]
    /\ UNCHANGED << ndebug, uninit, report, allocVars, layoutVars >>

AddLeakSourceInfo ==
  \E offset \in LeakOffsets, V \in LeakValues, siteInfo \in SiteInfo :
    addLeakSourceInfo(offset, V, siteInfo)

\* a query of the registry by another pass
GetSiteInfo ==
  \E offset \in LeakOffsets, V \in LeakValues :
    /\ ~aborted
    /\ last' = [op |-> "getSiteInfo", offset |-> offset, V |-> V,
                result |-> getSiteInfo(offset, V)]
    /\ UNCHANGED << ndebug, uninit, aborted, leakVars, allocVars, layoutVars >>

NoCalls == [n |-> 0, calls |-> {}, distinct |-> TRUE]

InitLeak ==
  /\ ndebug \in BOOLEAN
  /\ uninit = FALSE
  /\ aborted = FALSE
  /\ last = NoOp
  /\ leakInfo = << >>
  /\ recordCalls = NoCalls
  /\ report = << >>
  /\ allocSite = << >>
  /\ allocSize = 0
  /\ decl = << >>
  /\ structInfoMap = << >>
  /\ maxStruct = NULL
  /\ maxStructSize = 0
  /\ finalizedSeq = << >>

NextLeak == AddLeakSourceInfo \/ GetSiteInfo

SpecLeak == InitLeak /\ [][NextLeak]_vars

\* the last operation was addLeakSourceInfo on a key in state k
LastAdd(k) == last.op = "addLeakSourceInfo" /\ last.key = k

\* C2 (as claimed): re-recording a leak site with content identical to the
\* stored record is a no-op: the call returns normally, no fatal path is
\* taken, and the registry is unchanged.
C2_IdenticalIsNoOp ==
  LastAdd("identical") =>
    /\ ~aborted
    /\ ~last.warned
    /\ leakInfo = last.before

\* C2 (amended): re-recording with identical content leaves the registry
\* unchanged, but takes the duplicate-write path like any duplicate: the
\* warning is logged and, where assertions are enabled, the assertion fails.
C2_IdenticalTakesDuplicatePath ==
  LastAdd("identical") =>
    /\ leakInfo = last.before
    /\ last.warned
    /\ aborted <=> ~ndebug

C2_Witness == LastAdd("identical") /\ aborted

C4_LookupReturnsInserted ==
  recordCalls.distinct =>
    \A offset \in LeakOffsets, V \in LeakValues :
      /\ \A c \in recordCalls.calls :
           (c[1] = offset /\ c[2] = V) => getSiteInfo(offset, V) = c[3]
      /\ (\A c \in recordCalls.calls : ~(c[1] = offset /\ c[2] = V))
           => getSiteInfo(offset, V) = NoSiteInfo

\* two sites under one offset, one site under two offsets, one key absent,
\* and a lookup made
C4_Witness ==
  /\ recordCalls.distinct
  /\ Cardinality(recordCalls.calls) = 3
  /\ \E o \in LeakOffsets : Cardinality(DOMAIN leakInfo[o]) = 2
  /\ \E V \in LeakValues : \A o \in LeakOffsets : getSiteInfo(o, V) # NoSiteInfo
  /\ last.op = "getSiteInfo" /\ last.result = NoSiteInfo

(***************************************************************************)
(*                        Allocation classifier                            *)
(***************************************************************************)

generic_alloc ==
  {"kmalloc", "kzalloc", "__kmalloc", "__kmalloc_node", "kmalloc_node",
   "kzalloc_node", "kcalloc_node", "kcalloc", "kvzalloc", "kvzalloc_node"}
specific_alloc ==
  {"kmem_cache_alloc", "kmem_cache_alloc_node", "kmem_cache_zalloc"}

\* llvm::Type, as far as getStructType looks at it
StructTy(n) == [kind |-> "struct", name |-> n]
PointerTy(e) == [kind |-> "pointer", elem |-> e]
ArrayTy(e) == [kind |-> "array", elem |-> e]
IntTy == [kind |-> "int"]
NoType == [kind |-> "nullptr"]

RECURSIVE getStructType(_)
getStructType(ty) ==
  IF ty = NoType THEN NoType
  ELSE IF ty.kind = "struct" THEN ty
  ELSE IF ty.kind = "pointer" THEN getStructType(ty.elem)
  ELSE IF ty.kind = "array" THEN getStructType(ty.elem)
  ELSE NoType

\* The first argument of a cache-creation call (the cache name), as the
\* trace looks at it: expr is the kind of llvm::Value, base the operand 0 of
\* the constant GEP, isConstant/init describe that global variable.
NameArg(expr, base, isConstant, init, str) ==
  [expr |-> expr, base |-> base, isConstant |-> isConstant, init |-> init,
   str |-> str]
StringLiteral(str) == NameArg("ConstantGEP", "GlobalVariable", TRUE, "CString", str)

\* The users of a global variable: other instructions, and stores whose
\* stored value (operand 0) is described by `value`; a CallInst value carries
\* the name of the called function (NULL for an indirect call) and its
\* first argument.
OtherUser == [inst |-> "load"]
StoreOf(value) == [inst |-> "store", value |-> value]
CallTo(callee, arg0) == [kind |-> "call", callee |-> callee, arg0 |-> arg0]
NonCall == [kind |-> "other"]

\* function names in which find("kmem_cache_create") succeeds
ContainsKmemCacheCreate(callee) ==
  callee \in {"kmem_cache_create", "kmem_cache_create_usercopy"}

\* The global variables of the analysed module and the users of each.
GlobalUsers ==
  [ cachep_ok       |-> << OtherUser,
                           StoreOf(CallTo("kmem_cache_create", StringLiteral("my_cache"))) >>,
    cachep_usercopy |-> << StoreOf(CallTo("kmem_cache_create_usercopy",
                                          StringLiteral("other_cache"))) >>,
    cachep_unset    |-> << OtherUser >>,
    cachep_copied   |-> << StoreOf(NonCall) >>,
    cachep_lookup   |-> << StoreOf(CallTo("find_cache", StringLiteral("wrong_name"))) >>,
    cachep_indirect |-> << StoreOf(CallTo(NULL, StringLiteral("hidden_cache"))) >>,
    cachep_dynname  |-> << StoreOf(CallTo("kmem_cache_create",
                             NameArg("Argument", "none", FALSE, "none", ""))) >>,
    cachep_cast     |-> << StoreOf(CallTo("kmem_cache_create",
                             NameArg("ConstantCast", "GlobalVariable", TRUE, "CString", "cast_name"))) >>,
    cachep_mutable  |-> << StoreOf(CallTo("kmem_cache_create",
                             NameArg("ConstantGEP", "GlobalVariable", FALSE, "CString", "mutable_name"))) >>,
    cachep_zeroname |-> << StoreOf(CallTo("kmem_cache_create",
                             NameArg("ConstantGEP", "GlobalVariable", TRUE, "ZeroInitializer", ""))) >>,
    cachep_extern   |-> << StoreOf(CallTo("kmem_cache_create",
                             NameArg("ConstantGEP", "GlobalVariable", TRUE, "none", "extern_name"))) >>,
    cachep_twice    |-> << StoreOf(CallTo("kmem_cache_create",
                             NameArg("Argument", "none", FALSE, "none", ""))),
                           StoreOf(CallTo("kmem_cache_create", StringLiteral("second_cache"))) >> ]

GlobalVariables == DOMAIN GlobalUsers

\* What the build makes of undefined behaviour (a call through a null
\* Function*, getInitializer() of a declaration): the process dies, or the
\* read yields something the following test rejects.
UBOutcomes == {"crash", "survive"}

\* the outcome of the trace at one user / one site
Found(name) == [kind |-> "return", name |-> name]
NotFound == [kind |-> "continue"]
Crash == [kind |-> "crash"]

\* lines 224-238: the name argument of the creation call
nameOfCreateCall(arg0, ub) ==
  IF arg0.expr # "ConstantGEP" THEN NotFound
    \* dyn_cast<ConstantExpr> && isGEPWithNoNotionalOverIndexing
  ELSE IF arg0.base # "GlobalVariable" THEN NotFound
  ELSE IF ~arg0.isConstant THEN NotFound
  ELSE IF arg0.init = "none"
    \* getInitializer() of a global that has none
    THEN (IF ub = "crash" THEN Crash ELSE NotFound)
  ELSE IF arg0.init # "CString" THEN NotFound
    \* dyn_cast<ConstantDataSequential>
  ELSE Found(arg0.str)

\* lines 220-245: one user of the global variable
traceUser(u, ub) ==
  IF u.inst # "store" THEN NotFound
  ELSE IF u.value.kind # "call" THEN NotFound
  ELSE IF u.value.callee = NULL
    \* getCalledFunction() is null: ->getName() on a null pointer
    THEN (IF ub = "crash" THEN Crash ELSE NotFound)
  ELSE IF ~ContainsKmemCacheCreate(u.value.callee) THEN NotFound
  ELSE nameOfCreateCall(u.value.arg0, ub)

\* lines 219-246: for (auto u : globalVar->users())
RECURSIVE traceUsers(_, _)
traceUsers(users, ub) ==
  IF users = << >> THEN NotFound
  ELSE LET r == traceUser(Head(users), ub) IN
         IF r = NotFound THEN traceUsers(Tail(users), ub) ELSE r

\* An allocation call site CI: the name of the called function; what operand
\* 0 of the call is ("load", another instruction, or a value that is no
\* instruction); the instruction before the call in its block ("none" when
\* the call is first); the pointer operand of the load the trace reaches;
\* the type of the called function's first parameter.
CallSite(fn, arg0, prev, loadFrom, argType) ==
  [fn |-> fn, arg0 |-> arg0, prev |-> prev, loadFrom |-> loadFrom,
   argType |-> argType]

Instructions == {"load", "bitcast", "store"}

\* A mutant: only the instruction before the call is looked at, never the
\* operand itself.
getProducerOfArgument0_lookback(CI) ==
  IF CI.prev = "none" THEN NULL ELSE CI.prev

\* getProducerOfArgument0: the instruction, or NULL
getProducerOfArgument0(CI) ==
  IF CI.arg0 \in Instructions THEN CI.arg0
  ELSE IF CI.prev = "none" THEN NULL
  ELSE CI.prev

\* lines 193-249: the dedicated-cache trace at one call site
traceSite(CI, ub) ==
  LET stype == getStructType(CI.argType)
      previousInstruction == getProducerOfArgument0(CI)
      loadInst == IF previousInstruction = "load" THEN "load" ELSE NULL
      \* allocFunction->getArg(0) is an Argument, never a GlobalVariable
      globalVar == IF loadInst # NULL /\ CI.loadFrom \in GlobalVariables
                     THEN CI.loadFrom ELSE NULL
  IN IF previousInstruction = NULL THEN NotFound
     ELSE IF ~(stype # NoType /\ CI.argType.kind = "pointer") THEN NotFound
     ELSE IF globalVar = NULL THEN NotFound
     ELSE IF stype.name # "struct.kmem_cache" THEN NotFound
     ELSE traceUsers(GlobalUsers[globalVar], ub)

\* lines 252-253: the exponent of the smallest power of two >= size, from 3
RECURSIVE bucketExponent(_, _)
bucketExponent(i, size) ==
  IF 2^i < size THEN bucketExponent(i + 1, size) ELSE i

\* lines 251-261
genericCacheName(size) ==
  LET largerAlloc == 2^bucketExponent(3, size) IN
    IF largerAlloc < 8192 /\ largerAlloc >= 4096 THEN "kmalloc-8k"
    ELSE IF largerAlloc < 4096 /\ largerAlloc >= 2048 THEN "kmalloc-4k"
    ELSE IF largerAlloc < 2048 /\ largerAlloc >= 1024 THEN "kmalloc-2k"
    ELSE IF largerAlloc < 1024 /\ largerAlloc >= 512 THEN "kmalloc-1k"
    ELSE "kmalloc-" \o ToString(largerAlloc)

\* lines 183-250: the loop over allocSite
RECURSIVE allocSiteLoop(_, _, _, _)
allocSiteLoop(sites, found_generic_alloc, size, ub) ==
  IF sites = << >>
    THEN Found(IF found_generic_alloc THEN genericCacheName(size) ELSE "")
  ELSE LET CI == Head(sites)
           found == found_generic_alloc \/ CI.fn \in generic_alloc
           r == IF CI.fn \in specific_alloc THEN traceSite(CI, ub) ELSE NotFound
       IN IF r = NotFound THEN allocSiteLoop(Tail(sites), found, size, ub)
          ELSE r

\* std::string getAllocCache() const: Found(name), or Crash
getAllocCacheOf(sites, size, ub) == allocSiteLoop(sites, FALSE, size, ub)

\* The allocation calls of the analysed module that another pass may record
\* against the type: generic allocators, a call to neither class, and
\* dedicated-cache calls varying, one at a time, the global variable the
\* descriptor is loaded from, the producer of the descriptor, and the type
\* of the descriptor parameter.
KmemCachePtr == PointerTy(StructTy("struct.kmem_cache"))
AllocCalls ==
  { CallSite(fn, "constant", "store", "local", IntTy) :
      fn \in {"kmalloc", "kzalloc_node", "vmalloc"} }
  \cup
  { CallSite("kmem_cache_alloc", "load", "store", g, KmemCachePtr) :
      g \in GlobalVariables \cup {"local"} }
  \cup
  { CallSite("kmem_cache_zalloc", arg0, prev, "cachep_ok", KmemCachePtr) :
      arg0 \in {"load", "bitcast", "constant"}, prev \in {"none", "load", "store"} }
  \cup
  { CallSite("kmem_cache_alloc_node", "load", "store", "cachep_usercopy", ty) :
      ty \in { PointerTy(StructTy("struct.foo")), PointerTy(IntTy),
               StructTy("struct.kmem_cache"),
               PointerTy(PointerTy(StructTy("struct.kmem_cache"))) } }

\* the observed allocation sizes, in bytes
AllocSizes == {8, 500, 1024, 3000, 9000}

\* how many allocation sites are recorded against the type
MaxSites == 2

Range(seq) == { seq[i] : i \in 1..Len(seq) }
InsertAt(seq, p, e) == SubSeq(seq, 1, p - 1) \o << e >> \o SubSeq(seq, p, Len(seq))

\* allocSite.insert(CI) by the pass that finds allocation sites; the place
\* of CI in the iteration order of the std::set is the order of the pointers
InsertAllocSite ==
  \E CI \in AllocCalls \ Range(allocSite), p \in 1..(Len(allocSite) + 1) :
    /\ ~aborted
    /\ Len(allocSite) < MaxSites
    /\ allocSite' = InsertAt(allocSite, p, CI)
    /\ last' = [op |-> "allocSite.insert"]
    /\ UNCHANGED << ndebug, uninit, aborted, allocSize, leakVars, layoutVars >>

\* void setAllocSize(uint64_t size)
setAllocSize(size) ==
  /\ ~aborted
  /\ allocSize' = size
  /\ last' = [op |-> "setAllocSize"]
  /\ UNCHANGED << ndebug, uninit, aborted, allocSite, leakVars, layoutVars >>

SetAllocSize == \E size \in AllocSizes \ {allocSize} : setAllocSize(size)

\* std::string getAllocCache() const, called by the report
getAllocCache(ub) ==
  LET r == getAllocCacheOf(allocSite, allocSize, ub) IN
    /\ ~aborted
    /\ last' = [op |-> "getAllocCache", result |-> r]
    /\ aborted' = (r = Crash)
    /\ UNCHANGED << ndebug, uninit, allocVars, leakVars, layoutVars >>

GetAllocCache == \E ub \in UBOutcomes : getAllocCache(ub)

InitAlloc ==
  /\ ndebug = FALSE
  /\ uninit = FALSE
  /\ aborted = FALSE
  /\ last = NoOp
  /\ leakInfo = << >>
  /\ recordCalls = NoCalls
  /\ report = << >>
  /\ allocSite = << >>
  /\ allocSize \in AllocSizes
  /\ decl = << >>
  /\ structInfoMap = << >>
  /\ maxStruct = NULL
  /\ maxStructSize = 0
  /\ finalizedSeq = << >>

NextAlloc == InsertAllocSite \/ SetAllocSize \/ GetAllocCache

SpecAlloc == InitAlloc /\ [][NextAlloc]_vars

\* the last operation was a getAllocCache of the sites and size of the state
Queried == last.op = "getAllocCache"

IsGeneric(CI) == CI.fn \in generic_alloc
IsDedicated(CI) == CI.fn \in specific_alloc
\* the dedicated-cache trace at CI recovers a name
TraceSucceeds(CI) == IsDedicated(CI) /\ traceSite(CI, "survive").kind = "return"
\* the positions of allocSite whose trace recovers a name
Successes == { i \in 1..Len(allocSite) : TraceSucceeds(allocSite[i]) }
FirstSuccess == CHOOSE i \in Successes : \A j \in Successes : i <= j

\* C1: a type whose recorded sites are all generic-allocator calls resolves to
\* "kmalloc-1k" for size 500, "kmalloc-4k" for size 3000 and "kmalloc-16384"
\* for size 9000.
C1_GenericBucketNames ==
  (Queried /\ allocSite # << >> /\ \A CI \in Range(allocSite) : IsGeneric(CI)) =>
    /\ allocSize = 500 => last.result = Found("kmalloc-1k")
    /\ allocSize = 3000 => last.result = Found("kmalloc-4k")
    /\ allocSize = 9000 => last.result = Found("kmalloc-16384")

\* C5: getAllocCache returns the name recovered at the first dedicated-cache
\* site whose trace succeeds, whether or not generic sites are recorded too;
\* with no successful trace and a generic site, the generic size-bucket name;
\* with neither (an empty site set included), the empty string.
C5_DedicatedElseGenericElseEmpty ==
  Queried =>
    IF Successes # {}
      THEN last.result = traceSite(allocSite[FirstSuccess], "survive")
    ELSE IF \E CI \in Range(allocSite) : IsGeneric(CI)
      THEN last.result = Found(genericCacheName(allocSize))
    ELSE last.result = Found("")

\* C6: a failure of the dedicated-cache trace at one site abandons only that
\* site: getAllocCache never aborts, the sites after a failing one are still
\* examined, and a type with only failing dedicated sites resolves to "".
C6_TraceFailureIsSoft ==
  Queried =>
    /\ last.result # Crash
    /\ ~aborted
    /\ (\E i \in Successes : \E j \in 1..(i - 1) : IsDedicated(allocSite[j]))
         => last.result.kind = "return" /\ last.result.name # ""
    /\ (Successes = {} /\ \A CI \in Range(allocSite) : IsDedicated(CI))
         => last.result = Found("")

\* the call CI is the first instruction of its basic block
FirstInBlock(CI) == CI.prev = "none"
\* operand 0 of the call CI is itself an instruction
OperandIsInstruction(CI) == CI.arg0 \in Instructions

\* C11 (as claimed): when a dedicated-cache call is the first instruction of
\* its block, its trace is abandoned and no name is recovered from the site,
\* whatever produced the descriptor operand: a type whose sites are all such
\* calls resolves to "".
C11_FirstInBlockAbandonsTrace ==
  (Queried /\ \A CI \in Range(allocSite) : IsDedicated(CI) /\ FirstInBlock(CI))
    => last.result = Found("")

\* C11 (amended): the trace of a dedicated-cache call that is first in its
\* block is abandoned when its descriptor operand is not an instruction; when
\* the operand is an instruction, that instruction is the producer wherever
\* the call stands, and the site yields what the trace from it yields: the
\* name of the cache, when it is a load of a global variable that a
\* cache-creation call with a literal name is stored to.
C11_FirstInBlockAbandonsTraceUnlessProduced ==
  /\ (Queried /\ \A CI \in Range(allocSite) :
         IsDedicated(CI) /\ FirstInBlock(CI) /\ ~OperandIsInstruction(CI))
       => last.result = Found("")
  /\ \A CI \in AllocCalls :
       (Queried /\ allocSite = << CI >> /\ IsDedicated(CI) /\ FirstInBlock(CI)
          /\ CI.arg0 = "load" /\ CI.loadFrom = "cachep_ok" /\ CI.argType = KmemCachePtr)
         => last.result = Found("my_cache")

\* a query of a type whose only site is a dedicated-cache call, first in its
\* block, with a descriptor operand that is no instruction
C11_Witness ==
  /\ Queried
  /\ Len(allocSite) = 1
  /\ IsDedicated(allocSite[1]) /\ FirstInBlock(allocSite[1])
  /\ ~OperandIsInstruction(allocSite[1])
  /\ last.result = Found("")

(***************************************************************************)
(*                  Flattened layouts and the layout cache                 *)
(***************************************************************************)

\* The aggregate types of the program. A type embeds by value only types
\* declared before it (C requires the embedded type to be complete).
Types == << "struct.inner", "struct.mid", "struct.outer" >>
TypeSet == Range(Types)
IndexOf(st) == CHOOSE i \in 1..Len(Types) : Types[i] = st
Embeddable(st) == { Types[i] : i \in 1..(IndexOf(st) - 1) }

\* how many fields the types of the program declare in all
MaxFields == 3

\* A declared field: a pointer (8 bytes), a zero-length array (0 bytes), or
\* an aggregate embedded by value.
PointerField == [kind |-> "pointer"]
ArrayField == [kind |-> "array0"]
StructField(st) == [kind |-> "struct", st |-> st]
FieldsOf(st) ==
  {PointerField, ArrayField} \cup { StructField(b) : b \in Embeddable(st) }
\* the declarations of st with n fields
Declarations(st, n) == [1..n -> FieldsOf(st)]

\* the target's layout rules: DataLayout::getTypeAllocSize and
\* StructLayout::getElementOffset (no padding arises with these sizes)
RECURSIVE TypeAllocSize(_, _)
TypeAllocSize(d, f) ==
  IF f.kind = "pointer" THEN 8
  ELSE IF f.kind = "array0" THEN 0
  ELSE LET fs == d[f.st]
           sum[i \in 0..Len(fs)] ==
             IF i = 0 THEN 0 ELSE sum[i - 1] + TypeAllocSize(d, fs[i])
       IN sum[Len(fs)]

ElementOffset(d, st, i) ==
  LET fs == d[st]
      sum[j \in 0..Len(fs)] ==
        IF j = 0 THEN 0 ELSE sum[j - 1] + TypeAllocSize(d, fs[j])
  IN sum[i - 1]

\* a StructInfo as constructed: empty vectors, `finalized` assigned by no
\* constructor
NewStructInfo(fin) ==
  [arrayFlags |-> << >>, pointerFlags |-> << >>, unionFlags |-> << >>,
   fieldSize |-> << >>, offsetMap |-> << >>, fieldOffset |-> << >>,
   fieldRealSize |-> << >>, containers |-> {}, finalized |-> fin]

addOffsetMap(info, newOffsetMap) ==
  [info EXCEPT !.offsetMap = Append(@, newOffsetMap)]

\* A mutant: the union flag of a field is not recorded.
addField_nounion(info, newFieldSize, isArray, isPointer, isUnion) ==
  [info EXCEPT !.fieldSize = Append(@, newFieldSize),
               !.arrayFlags = Append(@, isArray),
               !.pointerFlags = Append(@, isPointer)]

addField(info, newFieldSize, isArray, isPointer, isUnion) ==
  [info EXCEPT !.fieldSize = Append(@, newFieldSize),
               !.arrayFlags = Append(@, isArray),
               !.pointerFlags = Append(@, isPointer),
               !.unionFlags = Append(@, isUnion)]

addFieldOffset(info, newOffset) ==
  [info EXCEPT !.fieldOffset = Append(@, newOffset)]

addRealSize(info, size) ==
  [info EXCEPT !.fieldRealSize = Append(@, size)]

getSize(info) == Len(info.offsetMap)
getExpandedSize(info) == Len(info.arrayFlags)

\* What fieldSize[0] == 0 yields on a vector with no element (a read out of
\* bounds): either truth value, or the process dies.
EmptyReads == {"true", "false", "crash"}

\* bool isEmpty() const { return (fieldSize[0] == 0); }
isEmpty(info, emptyRead) ==
  IF info.fieldSize = << >> THEN emptyRead = "true"
  ELSE info.fieldSize[1] = 0

appendFields(info, other, emptyRead) ==
  [info EXCEPT
     !.fieldSize = IF ~isEmpty(other, emptyRead) THEN @ \o other.fieldSize ELSE @,
     !.arrayFlags = @ \o other.arrayFlags,
     !.pointerFlags = @ \o other.pointerFlags,
     !.unionFlags = @ \o other.unionFlags,
     !.fieldRealSize = @ \o other.fieldRealSize]

NonZero(i) == i # 0

appendFieldOffset(info, other) ==
  LET base == info.fieldOffset[Len(info.fieldOffset)]
      kept == SelectSeq(other.fieldOffset, NonZero)
  IN [info EXCEPT !.fieldOffset = @ \o [j \in 1..Len(kept) |-> kept[j] + base]]

addContainer(info, st, offset) ==
  [info EXCEPT !.containers = @ \cup {<< st, offset >>}]

\* void finalize() {}
finalize(info) == info

isFinalized(info) == info.finalized

\* A mutant: a type with as many fields as the record replaces it.
updateMaxStruct_geq(ctx, st, structSize) ==
  IF structSize >= ctx.maxStructSize
    THEN [ctx EXCEPT !.maxStruct = st, !.maxStructSize = structSize]
  ELSE ctx

\* static void updateMaxStruct(st, structSize), on the context that carries
\* the two static members
updateMaxStruct(ctx, st, structSize) ==
  IF structSize > ctx.maxStructSize
    THEN [ctx EXCEPT !.maxStruct = st, !.maxStructSize = structSize]
  ELSE ctx

\* const StructType *getContainer(st, offset) const
getContainer(info, st, offset) ==
  IF << st, offset >> \in info.containers THEN st ELSE NULL

\* The flattening runs on a context: the cache, the two static members, the
\* history of finalizations, and whether the process has died.
Context(map, ms, mss, fseq) ==
  [map |-> map, maxStruct |-> ms, maxStructSize |-> mss, finalizedSeq |-> fseq,
   crashed |-> FALSE]

\* StructAnalyzer::addContainer: containee.addContainer(container, offset)
cacheAddContainer(ctx, container, containee, offset) ==
  [ctx EXCEPT !.map[containee] = addContainer(@, container, offset)]

RECURSIVE computeStructInfo(_, _, _, _, _)
RECURSIVE addFieldsFrom(_, _, _, _, _, _, _, _)

\* The declared fields i.. of st, added to the layout `info` under
\* construction; numField counts the expanded fields so far. Yields the
\* context and the layout once every field is in.
addFieldsFrom(d, st, i, info, numField, ctx, fin, emptyRead) ==
  IF ctx.crashed \/ i > Len(d[st])
    THEN [ctx |-> ctx, info |-> info, numField |-> numField]
  ELSE
    LET f == d[st][i]
        currentOffset == ElementOffset(d, st, i)
        info1 == addOffsetMap(addFieldOffset(info, currentOffset), numField)
    IN IF f.kind = "struct"
         THEN LET ctx1 == computeStructInfo(d, f.st, ctx, fin, emptyRead)
              IN IF ctx1.crashed
                   THEN [ctx |-> ctx1, info |-> info1, numField |-> numField]
                 ELSE
                   LET ctx2 == cacheAddContainer(ctx1, st, f.st, currentOffset)
                       subInfo == ctx2.map[f.st]
                       dies == subInfo.fieldSize = << >> /\ emptyRead = "crash"
                       info2 == appendFieldOffset(
                                  appendFields(info1, subInfo, emptyRead), subInfo)
                   IN IF dies
                        THEN [ctx |-> [ctx2 EXCEPT !.crashed = TRUE],
                              info |-> info1, numField |-> numField]
                      ELSE addFieldsFrom(d, st, i + 1, info2,
                                         numField + getExpandedSize(subInfo),
                                         ctx2, fin, emptyRead)
       ELSE
         LET info2 == addRealSize(
                        addField(info1, 1, f.kind = "array0", f.kind = "pointer", FALSE),
                        TypeAllocSize(d, f))
         IN addFieldsFrom(d, st, i + 1, info2, numField + 1, ctx, fin, emptyRead)

\* Expand the type st: flatten its fields, finalize, update the largest-struct
\* record, and only then publish the layout to the cache.
addStructInfo(d, st, ctx, fin, emptyRead) ==
  LET r == addFieldsFrom(d, st, 1, NewStructInfo(fin), 0, ctx, fin, emptyRead)
  IN IF r.ctx.crashed THEN r.ctx
     ELSE LET stInfo == finalize(r.info)
              ctx1 == updateMaxStruct(r.ctx, st, r.numField)
          IN [ctx1 EXCEPT !.map = @ @@ (st :> stInfo),
                          !.finalizedSeq = Append(@, st)]

\* the memoized layout of st if it has one, else addStructInfo
computeStructInfo(d, st, ctx, fin, emptyRead) ==
  IF st \in DOMAIN ctx.map THEN ctx
  ELSE addStructInfo(d, st, ctx, fin, emptyRead)

\* run() / getStructInfo on a type with no layout yet
ComputeStructInfo ==
  \E st \in TypeSet \ DOMAIN structInfoMap, emptyRead \in EmptyReads :
    LET ctx == computeStructInfo(decl, st,
                 Context(structInfoMap, maxStruct, maxStructSize, finalizedSeq),
                 uninit, emptyRead)
    IN /\ ~aborted
       /\ aborted' = ctx.crashed
       /\ structInfoMap' = ctx.map
       /\ maxStruct' = ctx.maxStruct
       /\ maxStructSize' = ctx.maxStructSize
       /\ finalizedSeq' = ctx.finalizedSeq
       /\ last' = [op |-> "computeStructInfo",
                   maxStructSizeBefore |-> maxStructSize]
       /\ UNCHANGED << ndebug, uninit, decl, leakVars, allocVars >>

\* a query by another pass of a type whose layout is in the cache
GetStructInfo ==
  \E st \in DOMAIN structInfoMap :
    /\ ~aborted
    /\ last' = [op |-> "getStructInfo",
                isFinalized |-> isFinalized(structInfoMap[st])]
    /\ UNCHANGED << ndebug, uninit, aborted, layoutVars, leakVars, allocVars >>

InitLayout ==
  /\ ndebug = FALSE
  /\ uninit \in BOOLEAN
  /\ aborted = FALSE
  /\ last = NoOp
  /\ leakInfo = << >>
  /\ recordCalls = NoCalls
  /\ report = << >>
  /\ allocSite = << >>
  /\ allocSize = 0
  /\ \E n1 \in 0..MaxFields :
     \E n2 \in 0..(MaxFields - n1) :
     \E n3 \in 0..(MaxFields - n1 - n2) :
     \E d1 \in Declarations(Types[1], n1), d2 \in Declarations(Types[2], n2),
        d3 \in Declarations(Types[3], n3) :
       decl = (Types[1] :> d1) @@ (Types[2] :> d2) @@ (Types[3] :> d3)
  /\ structInfoMap = << >>
  /\ maxStruct = NULL
  /\ maxStructSize = 0
  /\ finalizedSeq = << >>

NextLayout == ComputeStructInfo \/ GetStructInfo

SpecLayout == InitLayout /\ [][NextLayout]_vars

\* the layouts a query can obtain
Cached == DOMAIN structInfoMap
\* the types st embeds by value, and the position of a finalization
EmbeddedIn(st) == { decl[st][i].st : i \in { j \in 1..Len(decl[st]) : decl[st][j].kind = "struct" } }
FinalizedAt(st) == CHOOSE i \in 1..Len(finalizedSeq) : finalizedSeq[i] = st

\* C7: in every layout the vectors arrayFlags, pointerFlags, unionFlags,
\* fieldSize and fieldRealSize have the same length, the expanded-field count,
\* after any field additions and splices, the splice of an empty layout included.
C7_VectorsSameLength ==
  \A st \in Cached :
    LET info == structInfoMap[st] IN
      /\ Len(info.arrayFlags) = getExpandedSize(info)
      /\ Len(info.pointerFlags) = getExpandedSize(info)
      /\ Len(info.unionFlags) = getExpandedSize(info)
      /\ Len(info.fieldSize) = getExpandedSize(info)
      /\ Len(info.fieldRealSize) = getExpandedSize(info)

\* a layout with a field of its own has spliced in an empty layout, and a
\* layout has spliced in one with fields
C7_Witness ==
  /\ \E st \in Cached :
       /\ \E b \in EmbeddedIn(st) : getExpandedSize(structInfoMap[b]) = 0
       /\ \E i \in 1..Len(decl[st]) : decl[st][i].kind # "struct"
  /\ \E st \in Cached :
       \E b \in EmbeddedIn(st) : getExpandedSize(structInfoMap[b]) > 0

\* C8: when declared field i of A (the fields before it being plain) embeds B
\* with k expanded fields, A's expanded fields [0, i) are its declared fields,
\* positions [i, i+k) carry B's flags and real sizes with each byte offset
\* B's relative offset plus the byte offset of field i, offsetMap[i] == i,
\* and B's containers hold (A, byte offset of field i).
C8_EmbeddedFieldsRebased ==
  \A A \in Cached : \A i \in 1..Len(decl[A]) :
    (decl[A][i].kind = "struct" /\ \A j \in 1..(i - 1) : decl[A][j].kind # "struct") =>
      LET B == decl[A][i].st
          a == structInfoMap[A]
          b == structInfoMap[B]
          k == getExpandedSize(b)
          base == ElementOffset(decl, A, i)
      IN /\ \A j \in 1..(i - 1) :
              /\ a.arrayFlags[j] = (decl[A][j].kind = "array0")
              /\ a.pointerFlags[j] = (decl[A][j].kind = "pointer")
              /\ a.fieldRealSize[j] = TypeAllocSize(decl, decl[A][j])
              /\ a.fieldOffset[j] = ElementOffset(decl, A, j)
         /\ \A m \in 1..k :
              /\ a.arrayFlags[i - 1 + m] = b.arrayFlags[m]
              /\ a.pointerFlags[i - 1 + m] = b.pointerFlags[m]
              /\ a.unionFlags[i - 1 + m] = b.unionFlags[m]
              /\ a.fieldRealSize[i - 1 + m] = b.fieldRealSize[m]
              \* getFieldOffset is fieldOffset.at(field)
              /\ i - 1 + m \in DOMAIN a.fieldOffset
              /\ m \in DOMAIN b.fieldOffset
              /\ a.fieldOffset[i - 1 + m] = b.fieldOffset[m] + base
         /\ a.offsetMap[i] = i - 1
         /\ getContainer(b, A, base) = A

\* C9: every layout a query can obtain from the cache has had finalize()
\* applied and reports isFinalized() == true, and each layout it embeds was
\* finalized before it.
C9_PublishedOnlyFinalized ==
  /\ \A st \in Cached :
       /\ st \in Range(finalizedSeq)
       /\ isFinalized(structInfoMap[st])
       /\ \A b \in EmbeddedIn(st) :
            b \in Range(finalizedSeq) /\ FinalizedAt(b) < FinalizedAt(st)
  /\ last.op = "getStructInfo" => last.isFinalized

\* the expanded-field count of the i-th finalized type, the largest so far,
\* and the first finalization that reached it
SizeAt(i) == getExpandedSize(structInfoMap[finalizedSeq[i]])
LargestSize ==
  IF finalizedSeq = << >> THEN 0
  ELSE LET i == CHOOSE i \in 1..Len(finalizedSeq) :
                  \A j \in 1..Len(finalizedSeq) : SizeAt(j) <= SizeAt(i)
       IN SizeAt(i)
FirstLargest ==
  finalizedSeq[CHOOSE i \in 1..Len(finalizedSeq) :
                 /\ SizeAt(i) = LargestSize
                 /\ \A j \in 1..(i - 1) : SizeAt(j) < LargestSize]

\* C10 (as claimed): the largest-struct record holds the maximum
\* expanded-field count over the types finalized so far, never decreases,
\* and names the first type that reached that maximum.
C10_MaxStructIsFirstLargest ==
  /\ maxStructSize = LargestSize
  /\ last.op = "computeStructInfo" => last.maxStructSizeBefore <= maxStructSize
  /\ finalizedSeq # << >> => maxStruct = FirstLargest

\* C10 (amended): as claimed while the maximum is positive; while every
\* finalized type has no expanded field the size is 0 and no type is named.
C10_MaxStructIsFirstLargestIfPositive ==
  /\ maxStructSize = LargestSize
  /\ last.op = "computeStructInfo" => last.maxStructSizeBefore <= maxStructSize
  /\ maxStructSize > 0 => maxStruct = FirstLargest
  /\ maxStructSize = 0 => maxStruct = NULL

\* a later type ties with the recorded one and does not replace it
C10_Witness ==
  /\ last.op = "computeStructInfo"
  /\ maxStructSize > 0
  /\ \E i, j \in 1..Len(finalizedSeq) :
       /\ i < j
       /\ SizeAt(i) = maxStructSize /\ SizeAt(j) = maxStructSize
       /\ maxStruct = finalizedSeq[i]

\* The size entries a flattened layout of st is to have: 1 for a field that is
\* no aggregate; for an embedded aggregate its own entries, the first of them
\* replaced by its expanded-field count (an aggregate without expanded fields
\* takes no position).
RECURSIVE ExpectedFieldSize(_, _)
ExpectedFieldSize(d, st) ==
  LET fs == d[st]
      upTo[i \in 0..Len(fs)] ==
        IF i = 0 THEN << >>
        ELSE IF fs[i].kind # "struct" THEN upTo[i - 1] \o << 1 >>
        ELSE LET e == ExpectedFieldSize(d, fs[i].st)
             IN IF e = << >> THEN upTo[i - 1]
                ELSE upTo[i - 1] \o << Len(e) >> \o Tail(e)
  IN upTo[Len(fs)]

\* C12: in every flattened layout the size entry at the expanded position
\* where an embedded aggregate begins equals the embedded layout's
\* expanded-field count, and the size entry of every other expanded field is 1.
C12_EmbeddedSizeEntryIsCount ==
  \A st \in Cached :
    structInfoMap[st].fieldSize = ExpectedFieldSize(decl, st)

\* StructInfo::getFieldOffset(field) is fieldOffset.at(field): defined for
\* the positions the vector has, an exception for any other
getFieldOffsetDefined(info, field) == field + 1 \in DOMAIN info.fieldOffset

\* C14: in every layout built by pushing one byte offset per declared field
\* and splicing each embedded layout's offsets, fieldOffset has exactly one
\* entry per expanded field, so getFieldOffset(f) is defined for every
\* f < getExpandedSize(), also when the embedded layout has more than one
\* expanded field at relative byte offset 0.
C14_OneOffsetPerExpandedField ==
  \A st \in Cached :
    LET info == structInfoMap[st] IN
      /\ Len(info.fieldOffset) = getExpandedSize(info)
      /\ \A f \in 0..(getExpandedSize(info) - 1) : getFieldOffsetDefined(info, f)

(***************************************************************************)
(*                  The report of guard comparisons                        *)
(***************************************************************************)

\* ICmpInst::Predicate: the predicates an ICmpInst can have
Predicates ==
  {"ICMP_EQ", "ICMP_NE", "ICMP_UGT", "ICMP_UGE", "ICMP_ULT", "ICMP_ULE",
   "ICMP_SGT", "ICMP_SGE", "ICMP_SLT", "ICMP_SLE"}

\* CheckSrc::branchTaken (unsigned): 0 the true branch, 1 the false branch,
\* anything else both
BranchTaken == {0, 1, 2, 3}

\* how many comparisons a report renders
MaxReport == 2

\* A mutant: the false branch of <= is rendered as >=.
dumpPred_le(Pred, branchTaken) ==
  IF Pred \in {"ICMP_SLT", "ICMP_ULT"}
    THEN (IF branchTaken = 0 THEN " [<] "
          ELSE IF branchTaken = 1 THEN " [>=] "
          ELSE " [<]* ")
  ELSE IF Pred \in {"ICMP_SGT", "ICMP_UGT"}
    THEN (IF branchTaken = 0 THEN " [>] "
          ELSE IF branchTaken = 1 THEN " [<=] "
          ELSE " [>]* ")
  ELSE IF Pred \in {"ICMP_ULE", "ICMP_SLE"}
    THEN (IF branchTaken = 0 THEN " [<=] "
          ELSE IF branchTaken = 1 THEN " [>=] "
          ELSE " [<=]* ")
  ELSE IF Pred \in {"ICMP_SGE", "ICMP_UGE"}
    THEN (IF branchTaken = 0 THEN " [>=] "
          ELSE IF branchTaken = 1 THEN " [<] "
          ELSE " [>=]* ")
  ELSE IF Pred = "ICMP_EQ"
    THEN (IF branchTaken = 0 THEN " [==] "
          ELSE IF branchTaken = 1 THEN " [!=] "
          ELSE " [==]* ")
  ELSE IF Pred = "ICMP_NE"
    THEN (IF branchTaken = 0 THEN " [!=] "
          ELSE IF branchTaken = 1 THEN " [==] "
          ELSE " [!=]* ")
  ELSE ""

\* void dumpPred(ICmpInst *ICMP, unsigned branchTaken): what it writes
dumpPred(Pred, branchTaken) ==
  IF Pred \in {"ICMP_SLT", "ICMP_ULT"}
    THEN (IF branchTaken = 0 THEN " [<] "
          ELSE IF branchTaken = 1 THEN " [>=] "
          ELSE " [<]* ")
  ELSE IF Pred \in {"ICMP_SGT", "ICMP_UGT"}
    THEN (IF branchTaken = 0 THEN " [>] "
          ELSE IF branchTaken = 1 THEN " [<=] "
          ELSE " [>]* ")
  ELSE IF Pred \in {"ICMP_ULE", "ICMP_SLE"}
    THEN (IF branchTaken = 0 THEN " [<=] "
          ELSE IF branchTaken = 1 THEN " [>] "
          ELSE " [<=]* ")
  ELSE IF Pred \in {"ICMP_SGE", "ICMP_UGE"}
    THEN (IF branchTaken = 0 THEN " [>=] "
          ELSE IF branchTaken = 1 THEN " [<] "
          ELSE " [>=]* ")
  ELSE IF Pred = "ICMP_EQ"
    THEN (IF branchTaken = 0 THEN " [==] "
          ELSE IF branchTaken = 1 THEN " [!=] "
          ELSE " [==]* ")
  ELSE IF Pred = "ICMP_NE"
    THEN (IF branchTaken = 0 THEN " [!=] "
          ELSE IF branchTaken = 1 THEN " [==] "
          ELSE " [!=]* ")
  \* default: break
  ELSE ""

\* dumpLeakChecks renders one guard comparison of a leak site
DumpPred ==
  \E Pred \in Predicates, branchTaken \in BranchTaken :
    /\ ~aborted
    /\ Len(report) < MaxReport
    /\ report' = Append(report, dumpPred(Pred, branchTaken))
    /\ last' = [op |-> "dumpPred", Pred |-> Pred, branchTaken |-> branchTaken]
    /\ UNCHANGED << ndebug, uninit, aborted, leakInfo, recordCalls, allocVars,
                    layoutVars >>

InitReport ==
  /\ ndebug = FALSE
  /\ uninit = FALSE
  /\ aborted = FALSE
  /\ last = NoOp
  /\ leakInfo = << >>
  /\ recordCalls = NoCalls
  /\ report = << >>
  /\ allocSite = << >>
  /\ allocSize = 0
  /\ decl = << >>
  /\ structInfoMap = << >>
  /\ maxStruct = NULL
  /\ maxStructSize = 0
  /\ finalizedSeq = << >>

NextReport == DumpPred

SpecReport == InitReport /\ [][NextReport]_vars

\* The comparison operators, what each means on integers, and the operator
\* that holds exactly when a given one does not.
Operators == {"<", ">", "<=", ">=", "==", "!="}
Operands == 0..2
Holds(op, a, b) ==
  IF op = "<" THEN a < b
  ELSE IF op = ">" THEN a > b
  ELSE IF op = "<=" THEN a <= b
  ELSE IF op = ">=" THEN a >= b
  ELSE IF op = "==" THEN a = b
  ELSE a # b
Negated(op) ==
  CHOOSE n \in Operators :
    \A a, b \in Operands : Holds(n, a, b) <=> ~Holds(op, a, b)
\* the operator of a predicate, signed or unsigned
OperatorOf(Pred) ==
  IF Pred \in {"ICMP_SLT", "ICMP_ULT"} THEN "<"
  ELSE IF Pred \in {"ICMP_SGT", "ICMP_UGT"} THEN ">"
  ELSE IF Pred \in {"ICMP_SLE", "ICMP_ULE"} THEN "<="
  ELSE IF Pred \in {"ICMP_SGE", "ICMP_UGE"} THEN ">="
  ELSE IF Pred = "ICMP_EQ" THEN "=="
  ELSE "!="
\* the entry the last dumpPred wrote
Rendered == report[Len(report)]

\* C13: for each of the predicates <, >, <=, >=, ==, != (signed or unsigned)
\* dumpPred prints the predicate's own operator when the true branch was
\* taken (branchTaken == 0), the logically negated operator when the false
\* branch was taken (branchTaken == 1), and the predicate's own operator
\* followed by '*' for any other value.
C13_OperatorNarrowedToBranch ==
  last.op = "dumpPred" =>
    LET op == OperatorOf(last.Pred) IN
      IF last.branchTaken = 0 THEN Rendered = " [" \o op \o "] "
      ELSE IF last.branchTaken = 1 THEN Rendered = " [" \o Negated(op) \o "] "
      ELSE Rendered = " [" \o op \o "]* "

\* a <= comparison whose false branch was taken has been rendered, after a
\* comparison that both branches reach
C13_Witness ==
  /\ last.op = "dumpPred"
  /\ last.Pred = "ICMP_ULE" /\ last.branchTaken = 1
  /\ Rendered = " [>] "
  /\ Len(report) = 2 /\ report[1] = " [==]* "

====
